---- MODULE Spec2Model ----
(***************************************************************************)
(* Model of oncall_scheduler.cc: schedule(num_shifts, lookback) builds a   *)
(* CP-SAT model (variables, linear constraints, objective) for an oncall   *)
(* rotation, hands it to SolveCpModel and logs the assignment it reads out *)
(* of the response.                                                        *)
(*                                                                         *)
(* Index conventions: shift indices are 0-based as in the source           *)
(* (primary_shifts is a function on 0..total-1); person vectors are TLA+   *)
(* sequences, so the source's p_no is p_no+1 here (availablePersons[1] is  *)
(* the source's availablePersons[0]).  A BoolVar/IntVar is the 1-based     *)
(* index of its entry in builder.variables.                                *)
(***************************************************************************)
EXTENDS Integers, Sequences, FiniteSets, TLC

VARIABLES pc, num_shifts, lookback, rotation, availablePersons,
          primary_shifts, secondary_shifts, builder, i,
          min_shifts, max_shifts, objective, response, log

vars == <<pc, num_shifts, lookback, rotation, availablePersons,
          primary_shifts, secondary_shifts, builder, i,
          min_shifts, max_shifts, objective, response, log>>

\* ------------------------------------------------------------------ bounds

\* num_shifts ranges over 1..MaxShifts in Spec.
MaxShifts == 2
\* lookback ranges over 0..MaxLookback in Spec.
MaxLookback == 2
\* lookback ranges over 0..LongLookback in SpecHistory.
LongLookback == 7
\* A FEASIBLE response may carry penalty values whose objective cost exceeds
\* the least cost possible for its shift assignment by at most MaxSlack.
MaxSlack == 1

\* ------------------------------------------------------------ program data

Person(name, location_name) == [name |-> name, location_name |-> location_name]

\* The rotation literal of schedule().
HardcodedPersons ==
    << Person("me", "abc"), Person("be", "abc"), Person("ce", "def"),
       Person("fe", "def"), Person("ooo", "def") >>

\* Every rotation obtained from the literal by leaving persons out, in order.
\* The roster is configuration of the run; the literal itself is one of them.
Pick(s, keep) ==
    LET idx == SelectSeq([k \in 1..Len(s) |-> k], LAMBDA k : k \in keep)
    IN  [j \in 1..Len(idx) |-> s[idx[j]]]

Rosters == { Pick(HardcodedPersons, keep) : keep \in SUBSET (1..Len(HardcodedPersons)) }

\* As was_primary_oncall, with nobody on call in the past.
was_primary_oncall_Nobody(week, p) == FALSE

\* Lines 41-43.
was_primary_oncall(week, p) == p.name = "me"

\* Lines 45-47.
was_secondary_oncall(week, p) == p.name = "be"

\* As filterOOO, keeping everyone.
filterOOO_KeepAll(n_shifts, person) == person

filterOOO(n_shifts, person) == SelectSeq(person, LAMBDA p : p.name # "ooo")

\* std::shuffle: every ordering of the vector is a possible outcome.
Shuffles(s) == { [k \in 1..Len(s) |-> s[f[k]]] : f \in Permutations(1..Len(s)) }

\* ---------------------------------------------------------------- LinearExpr

LinearConstant(c) == [vars |-> <<>>, coeffs |-> <<>>, constant |-> c]

BooleanSum(vs) == [vars |-> vs, coeffs |-> [k \in 1..Len(vs) |-> 1], constant |-> 0]

AddTerm(e, v, c) == [e EXCEPT !.vars = Append(@, v), !.coeffs = Append(@, c)]

AddVar(e, v) == AddTerm(e, v, 1)

\* The implicit conversion of a BoolVar to a LinearExpr.
LinearVar(v) == AddVar(LinearConstant(0), v)

\* ------------------------------------------------------------ CpModelBuilder

EmptyBuilder == [variables |-> <<>>, constraints |-> <<>>,
                 constants |-> [c \in {0, 1} |-> 0],
                 objective |-> LinearConstant(0), valid |-> TRUE]

\* NewBoolVar / NewIntVar: a fresh variable with the given domain; its index
\* is Len(variables) of the result.
NewIntVar(b, lo, hi) == [b EXCEPT !.variables = Append(@, [lo |-> lo, hi |-> hi])]

NewBoolVar(b) == NewIntVar(b, 0, 1)

LastVar(b) == Len(b.variables)

\* TrueVar / FalseVar: the builder keeps one variable per constant value.
WithConstant(b, c) ==
    IF b.constants[c] # 0 THEN b
    ELSE [NewIntVar(b, c, c) EXCEPT !.constants[c] = Len(b.variables) + 1]

TrueVar(b) == WithConstant(b, 1).constants[1]

FalseVar(b) == WithConstant(b, 0).constants[0]

Negated(cs) == [k \in 1..Len(cs) |-> 0 - cs[k]]

LinearCt(op, left, right) ==
    [vars |-> left.vars \o right.vars,
     coeffs |-> left.coeffs \o Negated(right.coeffs),
     op |-> op,
     rhs |-> right.constant - left.constant]

\* AddLessOrEqual(left, right): left - right <= 0.
AddLessOrEqual(b, left, right) ==
    [b EXCEPT !.constraints = Append(@, LinearCt("le", left, right))]

\* AddEquality(left, right): left - right == 0.
AddEquality(b, left, right) ==
    [b EXCEPT !.constraints = Append(@, LinearCt("eq", left, right))]

\* ------------------------------------------------- schedule(): model building

\* As Exclusive, with the bound 2 for 1.
Exclusive_Two(b, p_shift, s_shift) ==
    AddLessOrEqual(b, BooleanSum(<<p_shift, s_shift>>), LinearConstant(2))

\* Line 160: person must not be primary and secondary at the same time.
Exclusive(b, p_shift, s_shift) ==
    AddLessOrEqual(b, BooleanSum(<<p_shift, s_shift>>), LinearConstant(1))

\* As Cooldown, with the test shift > lookback for shift >= 1.
Cooldown_InsideFuture(b, shift, p_shift, s_shift, p_no) ==
    IF shift > lookback
    THEN LET previous_p_shift == primary_shifts[shift - 1][p_no]
             previous_s_shift == secondary_shifts[shift - 1][p_no]
             b1 == AddLessOrEqual(b, BooleanSum(<<p_shift, previous_p_shift>>),
                                  LinearConstant(1))
         IN  AddLessOrEqual(b1, BooleanSum(<<s_shift, previous_s_shift>>),
                            LinearConstant(1))
    ELSE b

\* Lines 163-171: not primary or secondary back to back.  previous_p_shift and
\* previous_s_shift are the entries of row shift - 1 (read only if shift >= 1).
Cooldown(b, shift, p_shift, s_shift, p_no) ==
    IF shift >= 1
    THEN LET previous_p_shift == primary_shifts[shift - 1][p_no]
             previous_s_shift == secondary_shifts[shift - 1][p_no]
             b1 == AddLessOrEqual(b, BooleanSum(<<p_shift, previous_p_shift>>),
                                  LinearConstant(1))
         IN  AddLessOrEqual(b1, BooleanSum(<<s_shift, previous_s_shift>>),
                            LinearConstant(1))
    ELSE b

\* As Coverage, with <= for ==.
Coverage_AtMostOne(b, p_row, s_row) ==
    AddLessOrEqual(AddLessOrEqual(b, BooleanSum(p_row), LinearConstant(1)),
                   BooleanSum(s_row), LinearConstant(1))

\* Lines 175-176: each shift must have a person assigned.
Coverage(b, p_row, s_row) ==
    AddEquality(AddEquality(b, BooleanSum(p_row), LinearConstant(1)),
                BooleanSum(s_row), LinearConstant(1))

\* Lines 121-141: the row of fixed variables of one past shift.
\* st = [b |-> builder, p |-> primary row so far, s |-> secondary row so far].
RECURSIVE PastRows(_, _, _)
PastRows(st, week, p_no) ==
    IF p_no > Len(availablePersons) THEN st
    ELSE LET p  == availablePersons[p_no]
             pv == IF was_primary_oncall(week, p) THEN 1 ELSE 0
             b1 == WithConstant(st.b, pv)
             sv == IF was_secondary_oncall(week, p) THEN 1 ELSE 0
             b2 == WithConstant(b1, sv)
         IN  PastRows([b |-> b2,
                       p |-> Append(st.p, b1.constants[pv]),
                       s |-> Append(st.s, b2.constants[sv])], week, p_no + 1)

\* Lines 150-172: the row of free variables of one future shift with the
\* per-person constraints.
RECURSIVE FutureRows(_, _, _)
FutureRows(st, shift, p_no) ==
    IF p_no > Len(availablePersons) THEN st
    ELSE LET b1 == NewBoolVar(st.b)
             p_shift == LastVar(b1)
             b2 == NewBoolVar(b1)
             s_shift == LastVar(b2)
             b3 == Exclusive(b2, p_shift, s_shift)
             b4 == Cooldown(b3, shift, p_shift, s_shift, p_no)
         IN  FutureRows([b |-> b4, p |-> Append(st.p, p_shift),
                         s |-> Append(st.s, s_shift)], shift, p_no + 1)

\* As AddSoftLessOrEqual, without the final AddLessOrEqual.
AddSoftLessOrEqual_NoConstraint(st, lo, hi, dir, left, right) ==
    LET b1 == NewIntVar(st.b, lo, hi)
        surplus == LastVar(b1)
        b2 == NewIntVar(b1, lo, hi)
        deficit == LastVar(b2)
    IN  [o |-> AddVar(AddVar(st.o, surplus), deficit), b |-> b2]

\* Lines 56-77.  st = [o |-> objective, b |-> builder]; dir is "Lhs" or "Rhs".
AddSoftLessOrEqual(st, lo, hi, dir, left, right) ==
    LET b1 == NewIntVar(st.b, lo, hi)
        surplus == LastVar(b1)
        b2 == NewIntVar(b1, lo, hi)
        deficit == LastVar(b2)
        left1  == IF dir = "Lhs" THEN AddTerm(AddVar(left, surplus), deficit, 0 - 1)
                  ELSE left
        right1 == IF dir = "Rhs" THEN AddTerm(AddVar(right, surplus), deficit, 0 - 1)
                  ELSE right
    IN  [o |-> AddVar(AddVar(st.o, surplus), deficit),
         b |-> AddLessOrEqual(b2, left1, right1)]

\* Lines 183-184.  size() is unsigned; the operands are non-negative here.
MinShiftsOf(total, size) == total \div size

\* As MaxShiftsOf, without the remainder test.
MaxShiftsOf_NoRemainder(total, size) == MinShiftsOf(total, size)

MaxShiftsOf(total, size) ==
    IF total % size = 0 THEN MinShiftsOf(total, size)
    ELSE MinShiftsOf(total, size) + 1

\* Lines 192-197: one person's variables over all shift indices.
PersonShifts(shifts, p_no) ==
    [k \in 1..(lookback + num_shifts) |-> shifts[k - 1][p_no]]

\* Lines 189-210.
RECURSIVE FairnessRows(_, _, _, _)
FairnessRows(st, mn, mx, p_no) ==
    IF p_no > Len(availablePersons) THEN st
    ELSE LET p_person_shifts == PersonShifts(primary_shifts, p_no)
             s_person_shifts == PersonShifts(secondary_shifts, p_no)
             s1 == AddSoftLessOrEqual(st, 0, mn, "Rhs", LinearConstant(mn),
                                      BooleanSum(p_person_shifts))
             s2 == AddSoftLessOrEqual(s1, 0, mx * 2, "Lhs",
                                      BooleanSum(p_person_shifts), LinearConstant(mx))
             s3 == AddSoftLessOrEqual(s2, 0, mn, "Rhs", LinearConstant(mn),
                                      BooleanSum(s_person_shifts))
             s4 == AddSoftLessOrEqual(s3, 0, mx * 2, "Lhs",
                                      BooleanSum(s_person_shifts), LinearConstant(mx))
         IN  FairnessRows(s4, mn, mx, p_no + 1)

\* Lines 221-224 for loop index k: the first available person takes no
\* future shift but the first one.
RECURSIVE OOOHack(_, _)
OOOHack(b, k) ==
    IF k >= num_shifts THEN b
    ELSE LET b1 == WithConstant(b, 0)
             b2 == AddEquality(b1, LinearVar(primary_shifts[lookback + k][1]),
                               LinearVar(b1.constants[0]))
             b3 == AddEquality(b2, LinearVar(secondary_shifts[lookback + k][1]),
                               LinearVar(b1.constants[0]))
         IN  OOOHack(b3, k + 1)

\* Lines 233-236.
Cost(person, k) ==
    IF person.location_name = "def" /\ k > 3 /\ k < 5 THEN 10 ELSE 1

\* Lines 227-240: per future shift k and person p_no, in loop order, a term
\* for the primary and one for the secondary variable.  Term number t (from
\* 0) belongs to k = t div 2n, p_no = (t mod 2n) div 2, primary first.
CostTerms(o) ==
    LET n == Len(availablePersons)
        k(t) == t \div (2 * n)
        p_no(t) == ((t % (2 * n)) \div 2) + 1
        shifts(t) == IF t % 2 = 0 THEN primary_shifts ELSE secondary_shifts
    IN  [o EXCEPT
           !.vars = @ \o [ t \in 1..(2 * n * num_shifts) |->
                             shifts(t - 1)[lookback + k(t - 1)][p_no(t - 1)] ],
           !.coeffs = @ \o [ t \in 1..(2 * n * num_shifts) |->
                               Cost(availablePersons[p_no(t - 1)], k(t - 1)) ]]

\* ------------------------------------------------------------- SolveCpModel
\* The solver is a library outside the repository.  It is modelled by its
\* contract: a response is OPTIMAL with a solution of least objective value,
\* FEASIBLE with some solution, INFEASIBLE when the constraints have none, or
\* MODEL_INVALID when a constraint names no variable of the model.  The
\* solutions are enumerated by extending partial assignments variable by
\* variable and testing each constraint as soon as its variables are set.

CtVars(c) == { c.vars[k] : k \in 1..Len(c.vars) }

\* f[lo] + ... + f[hi], by halving the range.
RECURSIVE SumRange(_, _, _)
SumRange(f, lo, hi) ==
    IF lo > hi THEN 0
    ELSE IF lo = hi THEN f[lo]
    ELSE SumRange(f, lo, (lo + hi) \div 2) + SumRange(f, ((lo + hi) \div 2) + 1, hi)

LinSum(vs, cs, val) == SumRange([ k \in 1..Len(vs) |-> cs[k] * val[vs[k]] ], 1, Len(vs))

Holds(c, val) ==
    IF c.op = "le" THEN LinSum(c.vars, c.coeffs, val) <= c.rhs
    ELSE LinSum(c.vars, c.coeffs, val) = c.rhs

ObjectiveValue(b, val) ==
    b.objective.constant + LinSum(b.objective.vars, b.objective.coeffs, val)

SetMax(S) == CHOOSE x \in S : \A y \in S : y <= x

SetMin(S) == CHOOSE x \in S : \A y \in S : x <= y

IsFixed(b, v) == b.variables[v].lo = b.variables[v].hi

\* The variables that occur in at most one constraint (here: the surplus and
\* deficit of a soft constraint).  They are completed constraint by
\* constraint once the other variables are set.
PrivateVars(b) ==
    { v \in 1..Len(b.variables) :
        /\ ~IsFixed(b, v)
        /\ Cardinality({ j \in 1..Len(b.constraints) : v \in CtVars(b.constraints[j]) }) <= 1 }

\* The variables enumerated first: neither fixed nor private.
SharedVars(b, priv) == { v \in 1..Len(b.variables) : ~IsFixed(b, v) /\ v \notin priv }

\* For each constraint without private variables, the largest shared variable
\* in it (0 if all its variables are fixed): the constraint is tested when
\* that variable is set.
TestAt(b, priv, shared) ==
    [ j \in { j \in 1..Len(b.constraints) : CtVars(b.constraints[j]) \cap priv = {} } |->
        IF CtVars(b.constraints[j]) \cap shared = {} THEN 0
        ELSE SetMax(CtVars(b.constraints[j]) \cap shared) ]

\* S extended over the shared variables among lo..hi, by halving the range.
RECURSIVE Extend(_, _, _, _, _, _)
Extend(b, shared, testAt, lo, hi, S) ==
    IF lo > hi THEN S
    ELSE IF lo = hi
    THEN IF lo \notin shared THEN S
         ELSE LET due == { j \in DOMAIN testAt : testAt[j] = lo }
                  cand == { [w EXCEPT ![lo] = x] :
                               w \in S, x \in b.variables[lo].lo .. b.variables[lo].hi }
              IN  { w \in cand : \A j \in due : Holds(b.constraints[j], w) }
    ELSE UNION { Extend(b, shared, testAt, ((lo + hi) \div 2) + 1, hi, S1) :
                   S1 \in { Extend(b, shared, testAt, lo, (lo + hi) \div 2, S) } }

\* The assignments of the shared variables that satisfy every constraint
\* without private variables (private variables hold their lower bound).
SharedSolutions(b, priv) ==
    UNION { IF \A j \in DOMAIN testAt : testAt[j] # 0 \/ Holds(b.constraints[j], base)
            THEN Extend(b, shared, testAt, 1, Len(b.variables), {base})
            ELSE {} :
            shared \in { SharedVars(b, priv) },
            testAt \in { TestAt(b, priv, SharedVars(b, priv)) },
            base \in { [ v \in 1..Len(b.variables) |-> b.variables[v].lo ] } }

\* The blocks of private variables, as a sequence: one per constraint that
\* has some, in the order of the constraints, then one per private variable
\* that is in no constraint (ct = 0).
Blocks(b, priv) ==
    LET cts == SelectSeq([ j \in 1..Len(b.constraints) |-> j ],
                         LAMBDA j : CtVars(b.constraints[j]) \cap priv # {})
        loose == SelectSeq([ v \in 1..Len(b.variables) |-> v ],
                           LAMBDA v : /\ v \in priv
                                      /\ \A j \in 1..Len(b.constraints) :
                                            v \notin CtVars(b.constraints[j]))
    IN  [ k \in 1..Len(cts) |-> [ct |-> cts[k], vs |-> CtVars(b.constraints[cts[k]]) \cap priv] ]
        \o [ k \in 1..Len(loose) |-> [ct |-> 0, vs |-> {loose[k]}] ]

\* The sum of the terms of constraint c whose variable is (inside = TRUE) or
\* is not (inside = FALSE) in vs.
PartSum(c, val, vs, inside) ==
    SumRange([ k \in 1..Len(c.vars) |->
                 IF (c.vars[k] \in vs) = inside THEN c.coeffs[k] * val[c.vars[k]] ELSE 0 ],
             1, Len(c.vars))

\* The least and the greatest value the terms of c outside vs can add up to.
RestRange(b, c, vs) ==
    LET least(k) == IF c.coeffs[k] >= 0 THEN c.coeffs[k] * b.variables[c.vars[k]].lo
                    ELSE c.coeffs[k] * b.variables[c.vars[k]].hi
        most(k) == IF c.coeffs[k] >= 0 THEN c.coeffs[k] * b.variables[c.vars[k]].hi
                   ELSE c.coeffs[k] * b.variables[c.vars[k]].lo
    IN  SumRange([ k \in 1..Len(c.vars) |-> IF c.vars[k] \in vs THEN 0 ELSE least(k) ],
                 1, Len(c.vars))
        ..
        SumRange([ k \in 1..Len(c.vars) |-> IF c.vars[k] \in vs THEN 0 ELSE most(k) ],
                 1, Len(c.vars))

\* The values of a block's variables, inside their domains, that satisfy the
\* block's constraint when the other terms of the constraint add up to rest.
BlockOptions(b, blk, rest) ==
    LET lo == SetMin({ b.variables[v].lo : v \in blk.vs })
        hi == SetMax({ b.variables[v].hi : v \in blk.vs })
        c == b.constraints[blk.ct]
    IN  { t \in [ blk.vs -> lo .. hi ] :
            /\ \A v \in blk.vs : b.variables[v].lo <= t[v] /\ t[v] <= b.variables[v].hi
            /\ \/ blk.ct = 0
               \/ /\ c.op = "le"
                  /\ rest + PartSum(c, t, blk.vs, TRUE) <= c.rhs
               \/ /\ c.op = "eq"
                  /\ rest + PartSum(c, t, blk.vs, TRUE) = c.rhs }

\* The objective's coefficient of variable v.
ObjCoeff(o, v) ==
    SumRange([ k \in 1..Len(o.vars) |-> IF o.vars[k] = v THEN o.coeffs[k] ELSE 0 ],
             1, Len(o.vars))

\* The objective cost of the values t of the variables vs.
BlockCost(coeff, vs, t) ==
    LET vseq == SelectSeq([ v \in 1..SetMax(vs) |-> v ], LAMBDA v : v \in vs)
    IN  SumRange([ k \in 1..Len(vseq) |-> coeff[vseq[k]] * t[vseq[k]] ], 1, Len(vseq))

\* A block's options for a given rest, each with the cost it has above the
\* least cost among them, up to slack.
BlockChoices(b, coeff, blk, rest, slack) ==
    UNION { UNION { { [t |-> t, excess |-> cost[t] - best] :
                        t \in { t \in DOMAIN cost : cost[t] - best <= slack } } :
                    best \in { IF DOMAIN cost = {} THEN 0
                               ELSE SetMin({ cost[u] : u \in DOMAIN cost }) } } :
            cost \in { [ t \in BlockOptions(b, blk, rest) |-> BlockCost(coeff, blk.vs, t) ] } }

\* Per block and per value of the rest of its constraint, the block's choices.
ChoiceTables(b, coeff, blocks, slack) ==
    [ k \in 1..Len(blocks) |->
        [ rest \in IF blocks[k].ct = 0 THEN {0}
                   ELSE RestRange(b, b.constraints[blocks[k].ct], blocks[k].vs) |->
            BlockChoices(b, coeff, blocks[k], rest, slack) ] ]

\* Per block, its choices under the assignment w of the other variables.
OptionsOf(b, blocks, tables, w) ==
    [ k \in 1..Len(blocks) |->
        tables[k][IF blocks[k].ct = 0 THEN 0
                  ELSE PartSum(b.constraints[blocks[k].ct], w, blocks[k].vs, FALSE)] ]

\* The joint choices of one option per block lo..hi whose excess costs add
\* up to at most budget, by halving the range: each [t |-> the values, as a
\* function on the blocks' variables, excess |-> their excess cost].
RECURSIVE Combine(_, _, _, _)
Combine(optionsOf, lo, hi, budget) ==
    IF lo > hi THEN { [t |-> <<>>, excess |-> 0] }
    ELSE IF lo = hi THEN { o \in optionsOf[lo] : o.excess <= budget }
    ELSE UNION { { [t |-> x.t @@ y.t, excess |-> x.excess + y.excess] :
                     y \in { y \in right : x.excess + y.excess <= budget } } :
                 x \in Combine(optionsOf, lo, (lo + hi) \div 2, budget),
                 right \in { Combine(optionsOf, ((lo + hi) \div 2) + 1, hi, budget) } }

\* The solutions that extend the assignment w of the shared variables, each
\* with the excess cost of its private variables.
CompletionsOf(b, priv, blocks, tables, w, slack) ==
    UNION { { [solution |-> [ v \in 1..Len(b.variables) |->
                                IF v \in priv THEN ch.t[v] ELSE w[v] ],
               excess |-> ch.excess] :
                ch \in Combine(optionsOf, 1, Len(blocks), slack) } :
            optionsOf \in { OptionsOf(b, blocks, tables, w) } }

\* All solutions that extend the assignments `shared` and whose private
\* variables cost at most `slack` more than the least possible for the values
\* of the shared variables.
Completions(b, priv, shared, slack) ==
    UNION { UNION { CompletionsOf(b, priv, blocks, tables, w, slack) :
                      tables \in { ChoiceTables(b,
                                      [ v \in priv |-> ObjCoeff(b.objective, v) ],
                                      blocks, slack) },
                      w \in shared } :
            blocks \in { Blocks(b, priv) } }

\* Of a set of solutions, those of least objective value.
Cheapest(b, sols) ==
    UNION { { w \in sols : ObjectiveValue(b, w) = best } :
            best \in { IF sols = {} THEN 0
                       ELSE SetMin({ ObjectiveValue(b, w) : w \in sols }) } }

HasSolution(r) == r.status \in {"OPTIMAL", "FEASIBLE"}

\* ------------------------------------------------------------ the reporter

\* The reads of the loops at lines 252-262 (role "Primary") and 264-274
\* (role "Secondary"), in order.
Reads(role, shifts) ==
    LET n == Len(availablePersons)
    IN  [ k \in 1..(num_shifts * n) |->
            LET shift == lookback + (k - 1) \div n
                p == ((k - 1) % n) + 1
            IN  [role |-> role, shift |-> shift, name |-> availablePersons[p].name,
                 var |-> shifts[shift][p]] ]

AllReads == Reads("Primary", primary_shifts) \o Reads("Secondary", secondary_shifts)

Line(rd) == [role |-> rd.role, shift |-> rd.shift, name |-> rd.name]

Lines(rds) == [ k \in 1..Len(rds) |-> Line(rds[k]) ]

\* SolutionBooleanValue(response, x): response.solution(index) == 1.
SolutionBooleanValue(r, x) == r.solution[x] = 1

\* ------------------------------------------------------------------ actions

NoResponse == [status |-> "NONE", solution |-> <<>>]

InitLocals ==
    /\ pc = "filter"
    /\ availablePersons = <<>>
    /\ primary_shifts = <<>>
    /\ secondary_shifts = <<>>
    /\ builder = EmptyBuilder
    /\ i = 0
    /\ min_shifts = 0
    /\ max_shifts = 0
    /\ objective = LinearConstant(0)
    /\ response = NoResponse
    /\ log = <<>>

Init ==
    /\ num_shifts \in 1..MaxShifts
    /\ lookback \in 0..MaxLookback
    /\ rotation \in Rosters
    /\ InitLocals

\* Lines 107-114: filter, shuffle, and size the two vectors of rows.
FilterShuffle ==
    /\ pc = "filter"
    /\ availablePersons' \in Shuffles(filterOOO(num_shifts, rotation))
    /\ primary_shifts' = [k \in 0..(lookback + num_shifts - 1) |-> <<>>]
    /\ secondary_shifts' = [k \in 0..(lookback + num_shifts - 1) |-> <<>>]
    /\ i' = 0
    /\ pc' = IF lookback > 0 THEN "lookback" ELSE "create"
    /\ UNCHANGED <<num_shifts, lookback, rotation, builder, min_shifts, max_shifts,
                   objective, response, log>>

\* Lines 117-142, one iteration of the loop.
LookBackShift ==
    /\ pc = "lookback"
    /\ i < lookback
    /\ LET st == PastRows([b |-> builder, p |-> <<>>, s |-> <<>>], i, 1)
       IN  /\ builder' = st.b
           /\ primary_shifts' = [primary_shifts EXCEPT ![i] = st.p]
           /\ secondary_shifts' = [secondary_shifts EXCEPT ![i] = st.s]
    /\ i' = IF i + 1 < lookback THEN i + 1 ELSE 0
    /\ pc' = IF i + 1 < lookback THEN "lookback" ELSE "create"
    /\ UNCHANGED <<num_shifts, lookback, rotation, availablePersons, min_shifts,
                   max_shifts, objective, response, log>>

\* Lines 145-177, one iteration of the loop.
CreateShift ==
    /\ pc = "create"
    /\ i < num_shifts
    /\ LET shift == i + lookback
           st == FutureRows([b |-> builder, p |-> <<>>, s |-> <<>>], shift, 1)
       IN  /\ builder' = Coverage(st.b, st.p, st.s)
           /\ primary_shifts' = [primary_shifts EXCEPT ![shift] = st.p]
           /\ secondary_shifts' = [secondary_shifts EXCEPT ![shift] = st.s]
    /\ i' = IF i + 1 < num_shifts THEN i + 1 ELSE 0
    /\ pc' = IF i + 1 < num_shifts THEN "create" ELSE "fairness"
    /\ UNCHANGED <<num_shifts, lookback, rotation, availablePersons, min_shifts,
                   max_shifts, objective, response, log>>

\* Lines 182-210.  With no available person the division and the remainder
\* by size() == 0 are undefined: the run traps, or goes on with some values.
Fairness ==
    /\ pc = "fairness"
    /\ LET total == num_shifts + lookback
           size == Len(availablePersons)
       IN  IF size = 0
           THEN \/ /\ pc' = "crashed"
                   /\ UNCHANGED <<min_shifts, max_shifts, builder, objective>>
                \/ /\ min_shifts' \in 0..total
                   /\ max_shifts' \in {min_shifts', min_shifts' + 1}
                   /\ pc' = "hacks"
                   /\ UNCHANGED <<builder, objective>>
           ELSE /\ min_shifts' = MinShiftsOf(total, size)
                /\ max_shifts' = MaxShiftsOf(total, size)
                /\ LET st == FairnessRows([o |-> objective, b |-> builder],
                                          min_shifts', max_shifts', 1)
                   IN  /\ builder' = st.b
                       /\ objective' = st.o
                /\ pc' = "hacks"
    /\ UNCHANGED <<num_shifts, lookback, rotation, availablePersons, primary_shifts,
                   secondary_shifts, i, response, log>>

\* Lines 221-224.  With no available person and num_shifts >= 2 the rows are
\* empty and element [0] is an out-of-bounds read: the run traps, or the
\* BoolVar read is garbage, which either is no variable of the model (the
\* model is then invalid) or happens to name one (g).
Hacks ==
    /\ pc = "hacks"
    /\ IF Len(availablePersons) = 0 /\ num_shifts >= 2
       THEN \/ /\ pc' = "crashed"
               /\ UNCHANGED builder
            \/ /\ pc' = "costs"
               /\ builder' = [WithConstant(builder, 0) EXCEPT !.valid = FALSE]
            \/ /\ pc' = "costs"
               /\ LET b1 == WithConstant(builder, 0)
                  IN  \E g \in 1..Len(b1.variables) :
                         builder' = AddEquality(b1, LinearVar(g), LinearVar(b1.constants[0]))
       ELSE /\ pc' = "costs"
            /\ builder' = OOOHack(builder, 1)
    /\ UNCHANGED <<num_shifts, lookback, rotation, availablePersons, primary_shifts,
                   secondary_shifts, i, min_shifts, max_shifts, objective, response, log>>

\* Lines 227-242.
Costs ==
    /\ pc = "costs"
    /\ objective' = CostTerms(objective)
    /\ builder' = [builder EXCEPT !.objective = objective']
    /\ pc' = "solve"
    /\ UNCHANGED <<num_shifts, lookback, rotation, availablePersons, primary_shifts,
                   secondary_shifts, i, min_shifts, max_shifts, response, log>>

\* Lines 247-249.
Solve ==
    /\ pc = "solve"
    /\ IF ~builder.valid
       THEN response' = [status |-> "MODEL_INVALID", solution |-> <<>>]
       ELSE \E priv \in { PrivateVars(builder) } :
            \E feasible \in { Completions(builder, priv,
                                           SharedSolutions(builder, priv), MaxSlack) } :
               \/ /\ feasible = {}
                  /\ response' = [status |-> "INFEASIBLE", solution |-> <<>>]
               \/ \E w \in Cheapest(builder, { r.solution : r \in { r \in feasible :
                                                                    r.excess = 0 } }) :
                     response' = [status |-> "OPTIMAL", solution |-> w]
               \/ \E r \in feasible :
                     response' = [status |-> "FEASIBLE", solution |-> r.solution]
    /\ pc' = "report"
    /\ UNCHANGED <<num_shifts, lookback, rotation, availablePersons, primary_shifts,
                   secondary_shifts, builder, i, min_shifts, max_shifts, objective, log>>

\* Lines 252-274.  The response's status is not looked at.  A response
\* without a solution has an empty solution field, and reading an element of
\* it is out of bounds: the run traps, or each read yields some value.
Report ==
    /\ pc = "report"
    /\ IF HasSolution(response)
       THEN /\ log' = Lines(SelectSeq(AllReads,
                                      LAMBDA rd : SolutionBooleanValue(response, rd.var)))
            /\ pc' = "done"
       ELSE IF AllReads = <<>>
       THEN /\ log' = <<>>
            /\ pc' = "done"
       ELSE \/ /\ pc' = "crashed"
               /\ log' = <<>>
            \/ /\ pc' = "done"
               /\ \E yes \in SUBSET (1..Len(AllReads)) :
                     log' = Lines(Pick(AllReads, yes))
    /\ UNCHANGED <<num_shifts, lookback, rotation, availablePersons, primary_shifts,
                   secondary_shifts, builder, i, min_shifts, max_shifts, objective,
                   response>>

Next ==
    \/ FilterShuffle
    \/ LookBackShift
    \/ CreateShift
    \/ Fairness
    \/ Hacks
    \/ Costs
    \/ Solve
    \/ Report

Spec == Init /\ [][Next]_vars

\* The scenario roster with lookback = 1 and num_shifts = 4: the rotation
\* literal (two persons at "abc", two at "def", one out of office); the
\* history has "me" primary and "be" secondary at index 0.
InitScenario ==
    /\ num_shifts = 4
    /\ lookback = 1
    /\ rotation = HardcodedPersons
    /\ InitLocals

SpecScenario == InitScenario /\ [][Next]_vars

\* The rotation literal with one shift to schedule after a long history.
InitHistory ==
    /\ num_shifts = 1
    /\ lookback \in 0..LongLookback
    /\ rotation = HardcodedPersons
    /\ InitLocals

SpecHistory == InitHistory /\ [][Next]_vars

\* ------------------------------------------------------------- vocabulary

total_shifts == num_shifts + lookback

FutureShifts == lookback .. (total_shifts - 1)

AllShifts == 0 .. (total_shifts - 1)

PersonNos == 1 .. Len(availablePersons)

\* The value the response gives the variable of person p_no at shift k.
IsPrimary(k, p_no) == response.solution[primary_shifts[k][p_no]] = 1

IsSecondary(k, p_no) == response.solution[secondary_shifts[k][p_no]] = 1

PrimaryCount(p_no, ks) == Cardinality({ k \in ks : IsPrimary(k, p_no) })

\* Whether the soft constraints have been added and min/max computed.
PastFairness == pc \in {"hacks", "costs", "solve", "report", "done"}

\* AddSoftLessOrEqual puts surplus and deficit in the objective, so the
\* objective starts with 8 penalty variables per person: for c = 1 (primary,
\* lower bound), 2 (primary, upper bound), 3 and 4 (secondary), the surplus
\* (which = 1) and the deficit (which = 2).
PenaltyVar(p_no, c, which) == objective.vars[8 * (p_no - 1) + 2 * (c - 1) + which]

Penalty(p_no, c, which) == response.solution[PenaltyVar(p_no, c, which)]

\* ------------------------------------------------------------------ claims

\* C1: with at least two available persons, every solution has exactly one
\* available person primary and exactly one secondary at each future shift.
C1_Coverage ==
    (HasSolution(response) /\ Len(availablePersons) >= 2) =>
        \A k \in FutureShifts :
            /\ Cardinality({ p \in PersonNos : IsPrimary(k, p) }) = 1
            /\ Cardinality({ p \in PersonNos : IsSecondary(k, p) }) = 1

C1_Witness ==
    /\ pc = "done"
    /\ HasSolution(response)
    /\ Len(availablePersons) >= 3
    /\ num_shifts >= 2

\* C2 as claimed: in every solution no person holds the same role at two
\* consecutive shift indices, the pairs inside the history included.
C2_CooldownEverywhere ==
    HasSolution(response) =>
        \A p \in PersonNos : \A k \in AllShifts :
            k >= 1 => /\ ~(IsPrimary(k - 1, p) /\ IsPrimary(k, p))
                      /\ ~(IsSecondary(k - 1, p) /\ IsSecondary(k, p))

\* C2 as amended: in every solution no person holds the same role at shift
\* indices k - 1 and k when k >= 1 is a future index (both future, or k - 1
\* the last historical index with its fixed value).
C2_CooldownFuture ==
    HasSolution(response) =>
        \A p \in PersonNos : \A k \in FutureShifts :
            k >= 1 => /\ ~(IsPrimary(k - 1, p) /\ IsPrimary(k, p))
                      /\ ~(IsSecondary(k - 1, p) /\ IsSecondary(k, p))

\* A solution across the history/future boundary, with a person who was
\* primary at the last historical index, and two future shifts.
C2_Witness ==
    /\ HasSolution(response)
    /\ lookback >= 1
    /\ num_shifts >= 2
    /\ \E p \in PersonNos : IsPrimary(lookback - 1, p) /\ ~IsPrimary(lookback, p)
    /\ \E p \in PersonNos : IsSecondary(lookback - 1, p) /\ ~IsSecondary(lookback, p)

\* C3: in every solution no available person is primary and secondary at the
\* same future shift.
C3_Exclusivity ==
    HasSolution(response) =>
        \A k \in FutureShifts : \A p \in PersonNos : ~(IsPrimary(k, p) /\ IsSecondary(k, p))

C3_Witness ==
    /\ HasSolution(response)
    /\ Len(availablePersons) >= 2
    /\ \E k \in FutureShifts : \E p \in PersonNos : IsPrimary(k, p)

\* C4 as claimed: once the solver has answered a model built for at least one
\* available person with a response that is neither OPTIMAL nor FEASIBLE, the
\* run does not go through the read loops (neither to their end nor into a
\* trap) and logs no assignment line.
C4_NoReadOnFailure ==
    (Len(availablePersons) >= 1 /\ response.status \in {"INFEASIBLE", "MODEL_INVALID"}) =>
        (pc \notin {"done", "crashed"} /\ log = <<>>)

\* The model without the soft constraints: the constraints all of whose
\* variables are shift variables or constants.
RowVars ==
    UNION { { primary_shifts[k][p] : p \in 1..Len(primary_shifts[k]) } \cup
            { secondary_shifts[k][p] : p \in 1..Len(secondary_shifts[k]) } : k \in AllShifts }

HardOnly(b) ==
    [b EXCEPT !.constraints =
        SelectSeq(@, LAMBDA c : CtVars(c) \subseteq
                                  (RowVars \cup { b.constants[0], b.constants[1] }))]

\* The surplus and deficit variables: those that are no shift variable.
SoftVars == { v \in 1..Len(builder.variables) : v \notin RowVars /\ ~IsFixed(builder, v) }

\* C5 as claimed: the soft constraints never cause infeasibility: when the
\* solver finds the model built for at least one available person
\* infeasible, its hard constraints alone have no solution either.
C5_SoftNeverInfeasible ==
    (pc = "report" /\ response.status = "INFEASIBLE" /\ Len(availablePersons) >= 1) =>
        SharedSolutions(HardOnly(builder), SoftVars) = {}

\* C6 as claimed: with no available person the run aborts before any
\* variable or constraint is constructed and before the division.
C6_ConfigError ==
    (pc # "filter" /\ availablePersons = <<>>) =>
        /\ builder.variables = <<>>
        /\ builder.constraints = <<>>
        /\ pc \notin {"fairness", "hacks", "costs", "solve", "report", "done", "crashed"}

\* C7: in every solution, a person whose four primary penalty variables are 0
\* has a primary count over all shift indices within min_shifts..max_shifts;
\* a count outside comes with a positive one among those penalty variables.
C7_ZeroPenaltyInRange ==
    HasSolution(response) =>
        \A p \in PersonNos :
            \/ \E c \in 1..2 : \E which \in 1..2 : Penalty(p, c, which) > 0
            \/ /\ min_shifts <= PrimaryCount(p, AllShifts)
               /\ PrimaryCount(p, AllShifts) <= max_shifts

\* A solution where one person's primary penalties are all 0 and another's
\* primary count is out of range.
C7_Witness ==
    /\ HasSolution(response)
    /\ \E p \in PersonNos : \A c \in 1..2 : \A which \in 1..2 : Penalty(p, c, which) = 0
    /\ \E p \in PersonNos : \/ PrimaryCount(p, AllShifts) < min_shifts
                             \/ PrimaryCount(p, AllShifts) > max_shifts

PersonNamed(name) == CHOOSE p \in PersonNos : availablePersons[p].name = name

InOffice == { k \in 1..Len(rotation) : rotation[k].name # "ooo" }

\* C9: the available persons are the rotation's persons not out of office,
\* each once; every row of variables has one entry per available person; no
\* logged line names an out-of-office person; the divisor of min_shifts is the
\* number of persons not out of office.
C9_AvailableIsInOffice ==
    pc # "filter" =>
        /\ \A k \in InOffice :
              Cardinality({ p \in PersonNos : availablePersons[p] = rotation[k] }) = 1
        /\ \A p \in PersonNos : availablePersons[p].name # "ooo"
        /\ Len(availablePersons) = Cardinality(InOffice)
        /\ \A k \in AllShifts :
              /\ Len(primary_shifts[k]) \in {0, Cardinality(InOffice)}
              /\ Len(secondary_shifts[k]) \in {0, Cardinality(InOffice)}
        /\ \A l \in 1..Len(log) : log[l].name # "ooo"
        /\ (PastFairness /\ Cardinality(InOffice) > 0) =>
              min_shifts = total_shifts \div Cardinality(InOffice)

\* A finished run on a rotation with an out-of-office person and others.
C9_Witness ==
    /\ pc = "done"
    /\ HasSolution(response)
    /\ log # <<>>
    /\ \E k \in 1..Len(rotation) : rotation[k].name = "ooo"

\* C10: with at least one available person,
\* min_shifts * count <= total_shifts <= max_shifts * count, max_shifts is
\* min_shifts when count divides total_shifts and min_shifts + 1 otherwise.
C10_MinMaxBounds ==
    (PastFairness /\ Len(availablePersons) >= 1) =>
        /\ min_shifts * Len(availablePersons) <= total_shifts
        /\ total_shifts <= max_shifts * Len(availablePersons)
        /\ max_shifts - min_shifts <= 1
        /\ total_shifts < (min_shifts + 1) * Len(availablePersons)
        /\ (max_shifts = min_shifts) <=> (total_shifts % Len(availablePersons) = 0)

C10_Witness ==
    /\ pc = "hacks"
    /\ Len(availablePersons) >= 2
    /\ total_shifts % Len(availablePersons) # 0
    /\ min_shifts >= 1

====
